---- MODULE Spec2Model ----
(***************************************************************************)
(* The FEDn client (fedn/network/clients/client.py) as a state machine.    *)
(*                                                                         *)
(* The client is a multi-threaded process:                                 *)
(*   - the main thread runs Client.__init__ and then Client.run (the       *)
(*     Supervisor);                                                        *)
(*   - every call of _subscribe_to_combiner starts one _send_heartbeat     *)
(*     thread, one thread per configured request stream and one            *)
(*     process_request thread.  The threads started by the g-th call are   *)
(*     "generation g".                                                     *)
(* The threads share the plain attributes of the Client object.  An action *)
(* is one thread's step from one blocking point (an RPC, a sleep, a queue  *)
(* wait, a subprocess) to the next; _detach is two steps, the write of the *)
(* flag and the close of the channel, and so is the unsynchronised         *)
(* `self._missed_heartbeat += 1`, its read and its write.                  *)
(*                                                                         *)
(* The Combiner, the Discovery service, the network and the compute        *)
(* package are the environment: their answers are nondeterministic, within *)
(* the scenario env that Init chooses.  Spec explores the tasks, SpecConn  *)
(* the detaches and reattaches, SpecSerial both for a trainer, and SpecApi *)
(* direct calls of _attach and _detach.                                    *)
(***************************************************************************)
EXTENDS Integers, Sequences, FiniteSets, TLC

-----------------------------------------------------------------------------
(* Bounds of the model *)

\* number of _subscribe_to_combiner calls (thread generations) explored
MaxGen == 2
\* number of requests the Combiner pushes in a scenario with requests
MaxReq == 2
\* number of retryable answers Discovery gives to one _assign
MaxRetry == 2
\* cap on the _missed_heartbeat counter in the scenario of SpecConn
ConnMissed == 3
\* config['reconnect_after_missed_heartbeat'] of the explored configurations
Threshold == 1
\* number of close() calls on one channel that direct _detach calls make
MaxClose == 2
\* CHUNK_SIZE (line 29, 1024 * 1024 there), scaled down to the models explored
CHUNK_SIZE == 2
\* length in bytes of the longest model set_model is given
MaxLen == 5
\* number of frames of the longest Download stream get_model is given
MaxFrames == 3
\* length in bytes of the longest data of one frame of such a stream
MaxData == 1

Gens == 1..MaxGen
\* every generation opens one channel; direct calls of _attach may open one more
Chans == 1..(MaxGen + 1)

VARIABLES
    config,        \* the configuration dictionary (immutable)
    env,           \* the scenario (immutable): the answers Discovery gives, the number of
                   \* requests the Combiner pushes and their sender roles, the faults
                   \* that occur, and the value of _missed_heartbeat up to which
                   \* heartbeats go on failing
    state,         \* self.state: "None", "idle", "training", "validating"
    error_state,   \* self.error_state
    attached,      \* self._attached
    missed,        \* self._missed_heartbeat
    channel,       \* self.channel: a channel id, 0 before the first _connect
    stubs,         \* connectorStub, combinerStub, modelStub: the channel each is bound to
    chan,          \* per channel id: "unused", "open", "closed"
    closes,        \* per channel id: number of close() calls on it
    inbox,         \* self.inbox: the queue of (task_type, request) envelopes
    enqueued,      \* observation: the ids of the requests put on the inbox, in put order
    sup,           \* the main thread: program counter and locals
    nsub,          \* number of _subscribe_to_combiner calls so far
    hb,            \* per generation: the _send_heartbeat thread
    upd,           \* per generation: the _listen_to_model_update_request_stream thread
    val,           \* per generation: the _listen_to_model_validation_request_stream thread
    pipe,          \* per generation: the process_request thread
    nreq,          \* number of requests the Combiner has pushed so far
    published,     \* ids of the requests answered by SendModelUpdate/SendModelValidation, in order
    warnings,      \* number of WARNING entries _send_status has appended to self.logs
    xfer,          \* one set_model or get_model call looked at frame by frame
    link,          \* one _connect call: what it is given and the channel it builds
    disc           \* a DiscoveryCombinerConnect object and the answers to its last call

vars == <<config, env, state, error_state, attached, missed, channel, stubs, chan,
          closes, inbox, enqueued, sup, nsub, hb, upd, val, pipe, nreq, published, warnings, xfer, link,
          disc>>

cfg == <<config, env>>
\* the attributes of the Client object that _attach and _detach work on
conn == <<attached, channel, stubs, chan, closes>>
tasks == <<inbox, enqueued, nreq, published, warnings>>
threads == <<hb, upd, val, pipe>>

-----------------------------------------------------------------------------
(* Values *)

NoStubs == [connector |-> 0, combiner |-> 0, model |-> 0]
StubsOf(c) == [connector |-> c, combiner |-> c, model |-> c]

\* the answers of self.connector.assign(); "Error" stands for every status
\* that is none of the four named ones
AssignAnswers == {"Assigned", "TryAgain", "UnAuthorized", "UnMatchedConfig", "Error"}

\* a request message: id stands for its model_id and correlation_id, role is
\* its sender.role; no request carries id 0
NoRequest == [id |-> 0, role |-> "none", is_inference |-> FALSE]

Roles == {"COMBINER", "OTHER"}

\* what can go wrong while the channel is open: an RpcError of SendHeartbeat,
\* of a request stream, of SendStatus, of SendModelUpdate/SendModelValidation,
\* and a failure inside the try block of a task (a FAILED download, an
\* RpcError of Download/Upload, a file error, a failing subprocess)
Faults == {"heartbeat", "stream", "status", "publish", "task"}

\* the main thread: pc is its position, in is the caller of the _attach or
\* _subscribe_to_combiner in progress ("ctor" = __init__, "run" = run, "api" = a
\* direct call), calls/sleeps/ans are the assign() calls, the sleeps and the
\* last answer of the _assign in progress, noop records that the last _attach
\* returned at line 215
SupAt(pc, in) == [pc |-> pc, in |-> in, calls |-> 0, sleeps |-> 0, ans |-> "none",
                  noop |-> FALSE]

\* a _send_heartbeat thread: its position and the value of _missed_heartbeat
\* that the += of line 642 has read and not yet written back
NoBeat == [pc |-> "none", old |-> 0]

\* a listener thread: its position, the channel its open stream runs on and
\* the request the Combiner has written to that stream and the thread has
\* not read yet
NoListener == [pc |-> "none", ch |-> 0, msg |-> NoRequest]
\* a process_request thread: its position and its locals: the envelope in hand,
\* the updated_model_id or metrics (0 is None), whether the try block failed,
\* and the id set_model uploaded under (0: nothing uploaded)
NoPipe == [pc |-> "none", task_type |-> "none", request |-> NoRequest, result |-> 0,
           failed |-> FALSE, uploaded |-> 0]

\* the values of a byte that the explored models and frames are made of
Bytes == {0, 1}

\* the byte strings of at most n bytes
BytesUpTo(n) == UNION {[1..k -> Bytes] : k \in 0..n}

\* a set_model or get_model call: its position; for set_model the bytes of
\* the model (bt), the read position in it and the frames yielded so far; for
\* get_model the frames of the Download stream, the number of them read, the
\* buffer (data) and whether it returned None
NoXfer == [pc |-> "none", bt |-> << >>, pos |-> 0, frames |-> << >>, data |-> << >>,
           none |-> FALSE]

\* None
None == "None"

\* what grpc.secure_channel or grpc.insecure_channel was called with
Channel(secure, host, port) == [secure |-> secure, host |-> host, port |-> port]

\* a _connect call: its position, the assignment it is given, whether
\* FEDN_GRPC_ROOT_CERT_PATH is set, config['secure'] and config['token'], and
\* the channel it built
NoLink == [pc |-> "none",
           client_config |-> [host |-> None, port |-> 0, fqdn |-> None, certificate |-> None],
           getenv |-> FALSE, secure |-> FALSE, token |-> FALSE,
           channel |-> Channel(FALSE, None, 0)]

\* a DiscoveryCombinerConnect object (connect.py 12-31): its state, the method
\* called last and the HTTP status codes that call was answered with (0: no
\* such request was made), and whether the payload of update_status's GET
\* had a 'status' key
NoDisc == [state |-> "Disconnected", last |-> "none", get |-> 0, post |-> 0, patch |-> 0,
           payload |-> FALSE]

\* an RPC issued on a stub bound to channel c can succeed only while c is open
CanSucceed(c) == c \in Chans /\ chan[c] = "open"

\* an RPC on channel c raises RpcError: always possible on a channel that is
\* not open, and on an open one when the scenario has the fault
RpcError(c, fault) == ~CanSucceed(c) \/ fault \in env.faults

\* the process is running: sys.exit and the return of run() end every daemon thread
Running == sup.pc \notin {"exited", "stopped"}

-----------------------------------------------------------------------------
(* Client.__init__, lines 50-98: the state at line 86, before the first _attach *)

Configs ==
    [trainer : BOOLEAN, validator : BOOLEAN, checksum : BOOLEAN,
     reconnect_after_missed_heartbeat : {Threshold}]

InitObject ==
    /\ state = "None"
    /\ error_state = FALSE
    /\ attached = FALSE
    /\ missed = 0
    /\ channel = 0
    /\ stubs = NoStubs
    /\ chan = [c \in Chans |-> "unused"]
    /\ closes = [c \in Chans |-> 0]
    /\ inbox = << >>
    /\ enqueued = << >>
    /\ nsub = 0
    /\ hb = [g \in Gens |-> NoBeat]
    /\ upd = [g \in Gens |-> NoListener]
    /\ val = [g \in Gens |-> NoListener]
    /\ pipe = [g \in Gens |-> NoPipe]
    /\ nreq = 0
    /\ published = << >>
    /\ warnings = 0

-----------------------------------------------------------------------------
(* Client._attach, lines 210-222, with _assign (100-128) and _connect (130-194) *)

\* where _attach returns to
AttachReturn(in) ==
    IF in = "ctor" THEN "ctor_disp" ELSE IF in = "run" THEN "sub_spawn" ELSE "api"

\* a faulty _attach that lacks the test of line 213 and negotiates a new
\* assignment whatever the flag says; C9 must tell it from _attach
_attach_unconditional ==
    /\ sup.pc = "attach"
    /\ sup' = SupAt("assign", sup.in)
    /\ UNCHANGED <<cfg, disc, xfer, link, state, error_state, missed, conn, tasks, nsub, threads>>

\* lines 213-217: return None when attached, else go on to _assign
_attach ==
    /\ sup.pc = "attach"
    /\ IF attached
          THEN sup' = [SupAt(AttachReturn(sup.in), sup.in) EXCEPT !.noop = TRUE]
          ELSE sup' = SupAt("assign", sup.in)
    /\ UNCHANGED <<cfg, disc, xfer, link, state, error_state, missed, conn, tasks, nsub, threads>>

\* a faulty _assign that leaves the loop on every answer that is neither
\* TryAgain nor fatal; C10 must tell it from _assign
_assign_breaks_on_error ==
    /\ sup.pc = "assign"
    /\ \E ans \in env.answers :
          /\ ans = "TryAgain" => sup.sleeps < MaxRetry
          /\ sup' = [sup EXCEPT
                        !.calls = @ + 1,
                        !.ans = ans,
                        !.pc = CASE ans \in {"Assigned", "Error"} -> "connect"
                                 [] ans \in {"UnAuthorized", "UnMatchedConfig"} -> "exited"
                                 [] OTHER -> "assign_sleep"]
    /\ UNCHANGED <<cfg, disc, xfer, link, state, error_state, missed, conn, tasks, nsub, threads>>

\* lines 108-123: one self.connector.assign() call and the branch on its status
_assign ==
    /\ sup.pc = "assign"
    /\ \E ans \in env.answers :
          /\ ans \in {"TryAgain", "Error"} => sup.sleeps < MaxRetry
          /\ sup' = [sup EXCEPT
                        !.calls = @ + 1,
                        !.ans = ans,
                        !.pc = CASE ans = "Assigned" -> "connect"
                                 [] ans \in {"UnAuthorized", "UnMatchedConfig"} -> "exited"
                                 [] OTHER -> "assign_sleep"]
    /\ UNCHANGED <<cfg, disc, xfer, link, state, error_state, missed, conn, tasks, nsub, threads>>

\* lines 112-113 and 123: time.sleep(5), then the next iteration of the loop
_assign_sleep ==
    /\ sup.pc = "assign_sleep"
    /\ sup' = [sup EXCEPT !.sleeps = @ + 1, !.pc = "assign"]
    /\ UNCHANGED <<cfg, disc, xfer, link, state, error_state, missed, conn, tasks, nsub, threads>>

\* the id of the channel the next grpc.secure_channel/insecure_channel call creates
NewChannel == CHOOSE c \in Chans : chan[c] = "unused" /\ \A d \in Chans : d < c => chan[d] /= "unused"

\* lines 139-185: build a channel to the assigned combiner and install it and
\* the three stubs; the channel installed before is left as it is
_connect ==
    /\ sup.pc = "connect"
    /\ \E c \in Chans : chan[c] = "unused"
    /\ chan' = [chan EXCEPT ![NewChannel] = "open"]
    /\ channel' = NewChannel
    /\ stubs' = StubsOf(NewChannel)
    /\ sup' = [sup EXCEPT !.pc = "attach_flag"]
    /\ UNCHANGED <<cfg, disc, xfer, link, state, error_state, missed, attached, closes, tasks, nsub, threads>>

\* a faulty _attach that starts over with an empty inbox; C27 must tell it
\* from _attach_flag
_attach_flag_new_inbox ==
    /\ sup.pc = "attach_flag"
    /\ attached' = TRUE
    /\ inbox' = << >>
    /\ sup' = SupAt(AttachReturn(sup.in), sup.in)
    /\ UNCHANGED <<cfg, disc, xfer, link, state, error_state, missed, channel, stubs, chan, closes,
                   enqueued, nreq, published, warnings, nsub, threads>>

\* lines 220-222: mark attached and return the configuration
_attach_flag ==
    /\ sup.pc = "attach_flag"
    /\ attached' = TRUE
    /\ sup' = SupAt(AttachReturn(sup.in), sup.in)
    /\ UNCHANGED <<cfg, disc, xfer, link, state, error_state, missed, channel, stubs, chan, closes, tasks,
                   nsub, threads>>

-----------------------------------------------------------------------------
(* Client.__init__ after _attach, lines 89-98 *)

\* lines 89-91, _initialize_dispatcher (261-321): with a checksum configured the
\* downloaded package may fail pr.validate, which sets error_state and returns
_initialize_dispatcher ==
    /\ sup.pc = "ctor_disp"
    /\ \E checks_out \in BOOLEAN :
          /\ ~config.checksum => checks_out
          /\ error_state' = ~checks_out
    /\ sup' = [sup EXCEPT !.pc = "sub_spawn"]
    /\ UNCHANGED <<cfg, disc, xfer, link, state, missed, conn, tasks, nsub, threads>>

\* line 98
ctor_idle ==
    /\ sup.pc = "ctor_idle"
    /\ state' = "idle"
    /\ sup' = SupAt("run", "run")
    /\ UNCHANGED <<cfg, disc, xfer, link, error_state, missed, conn, tasks, nsub, threads>>

-----------------------------------------------------------------------------
(* Client._subscribe_to_combiner, lines 237-259 *)

\* lines 246-255: start the heartbeat thread and the configured listeners
_subscribe_to_combiner ==
    /\ sup.pc = "sub_spawn"
    /\ nsub < MaxGen
    /\ nsub' = nsub + 1
    /\ hb' = [hb EXCEPT ![nsub + 1].pc = "send"]
    /\ upd' = [upd EXCEPT ![nsub + 1].pc = IF config.trainer THEN "subscribe" ELSE "none"]
    /\ val' = [val EXCEPT ![nsub + 1].pc = IF config.validator THEN "subscribe" ELSE "none"]
    /\ sup' = [sup EXCEPT !.pc = "sub_flag"]
    /\ UNCHANGED <<cfg, disc, xfer, link, state, error_state, missed, conn, tasks, pipe>>

\* lines 719-720 of run: the test of error_state that ends a tick
AfterTick == IF error_state THEN "stopped" ELSE "run"

\* lines 256-259: set _attached and start the process_request thread; called
\* from run, the tick ends after it
_subscribe_flag ==
    /\ sup.pc = "sub_flag"
    /\ attached' = TRUE
    /\ pipe' = [pipe EXCEPT ![nsub].pc = "head"]
    /\ sup' = [sup EXCEPT !.pc = IF sup.in = "ctor" THEN "ctor_idle" ELSE AfterTick]
    /\ UNCHANGED <<cfg, disc, xfer, link, state, error_state, missed, channel, stubs, chan, closes, tasks,
                   nsub, hb, upd, val>>

-----------------------------------------------------------------------------
(* Client.run, lines 699-722 *)

\* a faulty run that returns when it finds the Worker detached; C12 must
\* tell it from run
run_returns_when_detached ==
    /\ sup.pc = "run"
    /\ IF ~attached
          THEN nsub < MaxGen /\ sup' = [sup EXCEPT !.pc = "stopped"]
          ELSE sup' = [sup EXCEPT !.pc = AfterTick]
    /\ UNCHANGED <<cfg, disc, xfer, link, state, error_state, missed, conn, tasks, nsub, threads>>

\* lines 705-720: one tick; when detached call _attach (and then
\* _subscribe_to_combiner), else test error_state
run ==
    /\ sup.pc = "run"
    /\ IF ~attached
          THEN nsub < MaxGen /\ sup' = SupAt("attach", "run")
          ELSE sup' = [sup EXCEPT !.pc = AfterTick]
    /\ UNCHANGED <<cfg, disc, xfer, link, state, error_state, missed, conn, tasks, nsub, threads>>

-----------------------------------------------------------------------------
(* Client._detach (200-208) and Client._disconnect (196-198) *)

\* lines 203-206: the test of _attached only prints; the flag is written in
\* every case and _disconnect follows
_detach == attached' = FALSE

\* line 198: close whatever self.channel is now
_disconnect ==
    /\ channel \in Chans
    /\ chan' = [chan EXCEPT ![channel] = "closed"]
    /\ closes' = [closes EXCEPT ![channel] = @ + 1]

-----------------------------------------------------------------------------
(* Client._send_heartbeat (646-668) and Client._handle_combiner_failure (640-644) *)

\* lines 655-668: one iteration of the loop, from the test of _attached that
\* follows the sleep (not made before the first heartbeat) to the next sleep:
\* return when detached, else one SendHeartbeat RPC on the current
\* connectorStub.  A failed RPC enters _handle_combiner_failure, whose += reads
\* the counter here and writes it in a later step of the thread
_send_heartbeat(g) ==
    /\ Running
    /\ hb[g].pc \in {"send", "sleep"}
    /\ IF hb[g].pc = "sleep" /\ ~attached
          THEN /\ hb' = [hb EXCEPT ![g].pc = "done"]
               /\ UNCHANGED missed
          ELSE \/ /\ CanSucceed(stubs.connector)
                  /\ missed' = 0
                  /\ hb' = [hb EXCEPT ![g].pc = "sleep"]
               \/ /\ RpcError(stubs.connector, "heartbeat")
                  /\ missed < env.missed
                  /\ hb' = [hb EXCEPT ![g] = [pc |-> "add", old |-> missed]]
                  /\ UNCHANGED missed
    /\ UNCHANGED <<cfg, disc, xfer, link, state, error_state, conn, tasks, sup, nsub, upd, val, pipe>>

\* lines 642-644 in heartbeat thread g: the write of the += , the test against
\* the threshold and, beyond it, _detach up to the write of the flag
_handle_combiner_failure(g) ==
    /\ Running
    /\ hb[g].pc = "add"
    /\ missed' = hb[g].old + 1
    /\ IF hb[g].old + 1 > config.reconnect_after_missed_heartbeat
          THEN _detach /\ hb' = [hb EXCEPT ![g] = [pc |-> "close", old |-> 0]]
          ELSE attached' = attached /\ hb' = [hb EXCEPT ![g] = [pc |-> "sleep", old |-> 0]]
    /\ UNCHANGED <<cfg, disc, xfer, link, state, error_state, channel, stubs, chan, closes, tasks,
                   sup, nsub, upd, val, pipe>>

\* line 208 in heartbeat thread g: the _disconnect that ends its _detach
heartbeat_disconnect(g) ==
    /\ Running
    /\ hb[g].pc = "close"
    /\ _disconnect
    /\ hb' = [hb EXCEPT ![g].pc = "sleep"]
    /\ UNCHANGED <<cfg, disc, xfer, link, state, error_state, attached, missed, channel, stubs, tasks, sup,
                   nsub, upd, val, pipe>>

-----------------------------------------------------------------------------
(* The Combiner's side of the two request streams *)

\* the Combiner writes the next request to the update-request stream of
\* listener g
combiner_update_request(g) ==
    /\ Running
    /\ upd[g].pc = "stream"
    /\ upd[g].msg = NoRequest
    /\ CanSucceed(upd[g].ch)
    /\ nreq < env.requests
    /\ nreq' = nreq + 1
    /\ \E role \in env.roles :
          upd' = [upd EXCEPT ![g].msg =
                     [id |-> nreq + 1, role |-> role, is_inference |-> FALSE]]
    /\ UNCHANGED <<cfg, disc, xfer, link, state, error_state, missed, conn, inbox, enqueued, published, warnings, sup,
                   nsub, hb, val, pipe>>

\* the Combiner writes the next request to the validation-request stream of
\* listener g
combiner_validation_request(g) ==
    /\ Running
    /\ val[g].pc = "stream"
    /\ val[g].msg = NoRequest
    /\ CanSucceed(val[g].ch)
    /\ nreq < env.requests
    /\ nreq' = nreq + 1
    /\ \E role \in env.roles, inf \in BOOLEAN :
          val' = [val EXCEPT ![g].msg =
                     [id |-> nreq + 1, role |-> role, is_inference |-> inf]]
    /\ UNCHANGED <<cfg, disc, xfer, link, state, error_state, missed, conn, inbox, enqueued, published, warnings, sup,
                   nsub, hb, upd, pipe>>

-----------------------------------------------------------------------------
(* Client._listen_to_model_update_request_stream, lines 393-427 *)

\* the end of an iteration of a listener's while loop (lines 426, 455): return
\* when detached, else open the stream again on the current combinerStub
Resubscribe(l) ==
    IF ~attached THEN [l EXCEPT !.pc = "done", !.msg = NoRequest]
                 ELSE [l EXCEPT !.pc = "stream", !.ch = stubs.combiner, !.msg = NoRequest]

\* line 407, first iteration: open the stream on the current combinerStub
update_subscribe(g) ==
    /\ Running
    /\ upd[g].pc = "subscribe"
    /\ upd' = [upd EXCEPT ![g].pc = "stream", ![g].ch = stubs.combiner]
    /\ UNCHANGED <<cfg, disc, xfer, link, state, error_state, missed, conn, tasks, sup, nsub, hb, val, pipe>>

\* lines 407-416: the stream yields a request.  A request of the COMBINER is
\* announced with _send_status and then put on the inbox; an RpcError of that
\* _send_status leaves the for loop before the put (line 417, then 426).
\* Line 415 returns when detached
update_request(g) ==
    /\ Running
    /\ upd[g].pc = "stream"
    /\ upd[g].msg /= NoRequest
    /\ LET request == upd[g].msg
           read == [upd[g] EXCEPT !.msg = NoRequest]
       IN IF request.role = "COMBINER"
            THEN \/ /\ CanSucceed(stubs.connector)
                    /\ inbox' = Append(inbox, <<"train", request>>)
                    /\ enqueued' = Append(enqueued, request.id)
                    /\ upd' = [upd EXCEPT ![g] =
                                  IF ~attached THEN [read EXCEPT !.pc = "done"] ELSE read]
                 \/ /\ RpcError(stubs.connector, "status")
                    /\ upd' = [upd EXCEPT ![g] = Resubscribe(read)]
                    /\ UNCHANGED <<inbox, enqueued>>
            ELSE /\ upd' = [upd EXCEPT ![g] =
                               IF ~attached THEN [read EXCEPT !.pc = "done"] ELSE read]
                 /\ UNCHANGED <<inbox, enqueued>>
    /\ UNCHANGED <<cfg, disc, xfer, link, state, error_state, missed, conn, nreq, published, warnings, sup,
                   nsub, hb, val, pipe>>

\* lines 417-427: the stream raises RpcError; the first except clause takes
\* it, so the sleep of the second is never reached
update_error(g) ==
    /\ Running
    /\ upd[g].pc = "stream"
    /\ RpcError(upd[g].ch, "stream")
    /\ upd' = [upd EXCEPT ![g] = Resubscribe(@)]
    /\ UNCHANGED <<cfg, disc, xfer, link, state, error_state, missed, conn, tasks, sup, nsub, hb, val, pipe>>

-----------------------------------------------------------------------------
(* Client._listen_to_model_validation_request_stream, lines 429-456 *)

\* line 441, first iteration
validation_subscribe(g) ==
    /\ Running
    /\ val[g].pc = "subscribe"
    /\ val' = [val EXCEPT ![g].pc = "stream", ![g].ch = stubs.combiner]
    /\ UNCHANGED <<cfg, disc, xfer, link, state, error_state, missed, conn, tasks, sup, nsub, hb, upd, pipe>>

\* lines 441-446: the stream yields a request; whatever its sender, it is
\* announced and put on the inbox; an RpcError of _send_status goes to the
\* except clause (448)
validation_request(g) ==
    /\ Running
    /\ val[g].pc = "stream"
    /\ val[g].msg /= NoRequest
    /\ \/ /\ CanSucceed(stubs.connector)
          /\ inbox' = Append(inbox, <<"validate", val[g].msg>>)
          /\ enqueued' = Append(enqueued, val[g].msg.id)
          /\ val' = [val EXCEPT ![g].msg = NoRequest]
       \/ /\ RpcError(stubs.connector, "status")
          /\ val' = [val EXCEPT ![g].msg = NoRequest, ![g].pc = "backoff"]
          /\ UNCHANGED <<inbox, enqueued>>
    /\ UNCHANGED <<cfg, disc, xfer, link, state, error_state, missed, conn, nreq, published, warnings, sup,
                   nsub, hb, upd, pipe>>

\* lines 448-451: the stream raises RpcError
validation_error(g) ==
    /\ Running
    /\ val[g].pc = "stream"
    /\ RpcError(val[g].ch, "stream")
    /\ val' = [val EXCEPT ![g].msg = NoRequest, ![g].pc = "backoff"]
    /\ UNCHANGED <<cfg, disc, xfer, link, state, error_state, missed, conn, tasks, sup, nsub, hb, upd, pipe>>

\* lines 450-456: after the 5 s sleep, return when detached, else subscribe again
validation_backoff(g) ==
    /\ Running
    /\ val[g].pc = "backoff"
    /\ val' = [val EXCEPT ![g] = Resubscribe(@)]
    /\ UNCHANGED <<cfg, disc, xfer, link, state, error_state, missed, conn, tasks, sup, nsub, hb, upd, pipe>>

-----------------------------------------------------------------------------
(* Client.process_request, lines 560-638, with _process_training_request      *)
(* (458-514) and _process_validation_request (516-558)                        *)

\* uuid.uuid4(): an id no request and no other upload carries
FreshId(request) == 0 - request.id

\* an exception leaves process_request: the thread ends where it is
Raise(g) == pipe' = [pipe EXCEPT ![g].pc = "dead"]

\* the state a task of this type sets (lines 572, 469 and 604, 534)
StateOf(task_type) == IF task_type = "train" THEN "training" ELSE "validating"

\* the head of the loop after an iteration: return when detached, else wait
\* on the inbox again
NextTask == [NoPipe EXCEPT !.pc = IF ~attached THEN "done" ELSE "get"]

\* lines 564-565: the head of the loop, first iteration
process_request(g) ==
    /\ Running
    /\ pipe[g].pc = "head"
    /\ pipe' = [pipe EXCEPT ![g] = NextTask]
    /\ UNCHANGED <<cfg, disc, xfer, link, state, error_state, missed, conn, tasks, sup, nsub, hb, upd, val>>

\* lines 564-572, 603-604: inbox.get; after queue.Empty the head of the loop
\* returns when detached (and waits again when not), an envelope sets the
\* state of its task type
inbox_get(g) ==
    /\ Running
    /\ pipe[g].pc = "get"
    /\ IF inbox = << >>
          THEN /\ ~attached
               /\ pipe' = [pipe EXCEPT ![g] = NextTask]
               /\ UNCHANGED <<state, inbox>>
          ELSE /\ inbox' = Tail(inbox)
               /\ state' = StateOf(Head(inbox)[1])
               /\ pipe' = [pipe EXCEPT ![g] = [NoPipe EXCEPT
                              !.pc = "start",
                              !.task_type = Head(inbox)[1],
                              !.request = Head(inbox)[2]]]
    /\ UNCHANGED <<cfg, disc, xfer, link, error_state, missed, conn, enqueued, nreq, published, warnings, sup, nsub, hb,
                   upd, val>>

\* lines 467-469, 532-534: the _send_status that announces the task, outside
\* the try block, and the second write of the state
task_start(g) ==
    /\ Running
    /\ pipe[g].pc = "start"
    /\ \/ /\ CanSucceed(stubs.connector)
          /\ state' = StateOf(pipe[g].task_type)
          /\ pipe' = [pipe EXCEPT ![g].pc = "fetch"]
       \/ /\ RpcError(stubs.connector, "status")
          /\ Raise(g)
          /\ UNCHANGED state
    /\ UNCHANGED <<cfg, disc, xfer, link, error_state, missed, conn, tasks, sup, nsub, hb, upd, val>>

\* a faulty except clause that keeps an updated_model_id; C4 must tell it
\* from training_failed
training_failed_keeps_id(g, uploaded) ==
    /\ pipe' = [pipe EXCEPT ![g].pc = "report", ![g].result = FreshId(pipe[g].request),
                            ![g].failed = TRUE, ![g].uploaded = uploaded]
    /\ state' = "idle"

\* lines 506-512: the except clause of _process_training_request and the
\* write of the state after it
training_failed(g, uploaded) ==
    /\ pipe' = [pipe EXCEPT ![g].pc = "report", ![g].result = 0, ![g].failed = TRUE,
                            ![g].uploaded = uploaded]
    /\ state' = "idle"

\* lines 551-553: the except clause of _process_validation_request raises
\* again; lines 554-555 are never reached
validation_failed(g) ==
    /\ pipe' = [pipe EXCEPT ![g].pc = "dead", ![g].failed = TRUE]
    /\ UNCHANGED state

\* lines 474-479, 536-540: get_model and the write of the input file.  A
\* FAILED frame makes get_model return None and getbuffer() raise
task_fetch(g) ==
    /\ Running
    /\ pipe[g].pc = "fetch"
    /\ \/ /\ CanSucceed(stubs.model)
          /\ pipe' = [pipe EXCEPT ![g].pc = "exec"]
          /\ UNCHANGED state
       \/ /\ RpcError(stubs.model, "task")
          /\ IF pipe[g].task_type = "train" THEN training_failed(g, 0)
                                            ELSE validation_failed(g)
    /\ UNCHANGED <<cfg, disc, xfer, link, error_state, missed, conn, tasks, sup, nsub, hb, upd, val>>

\* lines 481-490: dispatcher.run_cmd("train ...") and the read of the output
training_exec(g) ==
    /\ Running
    /\ pipe[g].pc = "exec"
    /\ pipe[g].task_type = "train"
    /\ \/ /\ pipe' = [pipe EXCEPT ![g].pc = "upload"]
          /\ UNCHANGED state
       \/ /\ "task" \in env.faults
          /\ training_failed(g, 0)
    /\ UNCHANGED <<cfg, disc, xfer, link, error_state, missed, conn, tasks, sup, nsub, hb, upd, val>>

\* a faulty upload step that hands the fresh id on although set_model raised;
\* C21 must tell it from training_upload
training_upload_unconfirmed(g) ==
    /\ Running
    /\ pipe[g].pc = "upload"
    /\ \/ /\ CanSucceed(stubs.model)
          /\ pipe' = [pipe EXCEPT ![g].pc = "report",
                                  ![g].uploaded = FreshId(pipe[g].request),
                                  ![g].result = FreshId(pipe[g].request)]
       \/ /\ RpcError(stubs.model, "task")
          /\ pipe' = [pipe EXCEPT ![g].pc = "report", ![g].failed = TRUE,
                                  ![g].result = FreshId(pipe[g].request)]
    /\ state' = "idle"
    /\ UNCHANGED <<cfg, disc, xfer, link, error_state, missed, conn, tasks, sup, nsub, hb, upd, val>>

\* lines 493-512: set_model under a fresh id, then the read of the sidecar
\* metadata file and the unlinks
training_upload(g) ==
    /\ Running
    /\ pipe[g].pc = "upload"
    /\ \/ /\ CanSucceed(stubs.model)
          /\ \/ /\ pipe' = [pipe EXCEPT
                                ![g].pc = "report",
                                ![g].uploaded = FreshId(pipe[g].request),
                                ![g].result = FreshId(pipe[g].request)]
                /\ state' = "idle"
             \/ /\ "task" \in env.faults
                /\ training_failed(g, FreshId(pipe[g].request))
       \/ /\ RpcError(stubs.model, "task")
          /\ training_failed(g, 0)
    /\ UNCHANGED <<cfg, disc, xfer, link, error_state, missed, conn, tasks, sup, nsub, hb, upd, val>>

\* lines 542-558: dispatcher.run_cmd("validate ..." or "infer ..."), the read
\* of the metrics file and the write of the state
validation_exec(g) ==
    /\ Running
    /\ pipe[g].pc = "exec"
    /\ pipe[g].task_type = "validate"
    /\ \/ /\ pipe' = [pipe EXCEPT ![g].pc = "report", ![g].result = 1]
          /\ state' = "idle"
       \/ /\ "task" \in env.faults
          /\ validation_failed(g)
    /\ UNCHANGED <<cfg, disc, xfer, link, error_state, missed, conn, tasks, sup, nsub, hb, upd, val>>

\* lines 579-601, 608-636: with a result, SendModelUpdate/SendModelValidation
\* and the _send_status after it; without, the WARNING _send_status, whose
\* entry is appended to self.logs (line 694) before its RPC.  An RpcError
\* of any of these RPCs leaves process_request.  Then the state is written,
\* task_done called and the loop goes back to its head
task_report(g) ==
    /\ Running
    /\ pipe[g].pc = "report"
    /\ IF pipe[g].result /= 0
         THEN \/ /\ CanSucceed(stubs.combiner)
                 /\ published' = Append(published, pipe[g].request.id)
                 /\ \/ /\ CanSucceed(stubs.connector)
                       /\ pipe' = [pipe EXCEPT ![g] = NextTask]
                       /\ state' = "idle"
                    \/ /\ RpcError(stubs.connector, "status")
                       /\ Raise(g)
                       /\ UNCHANGED state
              \/ /\ RpcError(stubs.combiner, "publish")
                 /\ Raise(g)
                 /\ UNCHANGED <<state, published>>
              /\ UNCHANGED warnings
         ELSE /\ warnings' = warnings + 1
              /\ UNCHANGED published
              /\ \/ /\ CanSucceed(stubs.connector)
                    /\ pipe' = [pipe EXCEPT ![g] = NextTask]
                    /\ state' = "idle"
                 \/ /\ RpcError(stubs.connector, "status")
                    /\ Raise(g)
                    /\ UNCHANGED state
    /\ UNCHANGED <<cfg, disc, xfer, link, error_state, missed, conn, inbox, enqueued, nreq, sup, nsub, hb,
                   upd, val>>

-----------------------------------------------------------------------------
(* The program *)

Supervisor ==
    \/ _attach
    \/ _assign
    \/ _connect
    \/ _attach_flag
    \/ _initialize_dispatcher
    \/ _subscribe_to_combiner
    \/ _subscribe_flag
    \/ ctor_idle
    \/ run

Heartbeat(g) ==
    \/ _send_heartbeat(g)
    \/ _handle_combiner_failure(g)
    \/ heartbeat_disconnect(g)

Combiner(g) ==
    \/ combiner_update_request(g)
    \/ combiner_validation_request(g)

Listeners(g) ==
    \/ update_subscribe(g)
    \/ update_request(g)
    \/ update_error(g)
    \/ validation_subscribe(g)
    \/ validation_request(g)
    \/ validation_error(g)
    \/ validation_backoff(g)

Pipeline(g) ==
    \/ process_request(g)
    \/ inbox_get(g)
    \/ task_start(g)
    \/ task_fetch(g)
    \/ training_exec(g)
    \/ training_upload(g)
    \/ validation_exec(g)
    \/ task_report(g)

-----------------------------------------------------------------------------
(* Scenario: tasks under every fault but a failing heartbeat, with one or    *)
(* both listeners configured and every answer of Discovery                  *)

Next ==
    \/ Supervisor
    \/ _assign_sleep
    \/ \E g \in Gens :
          _send_heartbeat(g) \/ Combiner(g) \/ Listeners(g) \/ Pipeline(g)

Init ==
    /\ config \in {c \in Configs : (c.trainer \/ c.validator) /\ ~c.checksum}
    /\ env = [answers |-> AssignAnswers, requests |-> MaxReq, roles |-> Roles,
              faults |-> Faults \ {"heartbeat"}, missed |-> 0]
    /\ sup = SupAt("attach", "ctor")
    /\ InitObject
    /\ disc = NoDisc
    /\ xfer = NoXfer
    /\ link = NoLink

Spec == Init /\ [][Next]_vars

-----------------------------------------------------------------------------
(* Scenario: heartbeats that fail, detaches and reattaches; no request      *)

NextConn ==
    \/ Supervisor
    \/ \E g \in Gens :
          \/ Heartbeat(g)
          \/ update_subscribe(g)
          \/ update_error(g)
          \/ process_request(g)
          \/ inbox_get(g)

InitConn ==
    /\ config = [trainer |-> TRUE, validator |-> FALSE, checksum |-> FALSE,
                 reconnect_after_missed_heartbeat |-> Threshold]
    /\ env = [answers |-> {"Assigned"}, requests |-> 0, roles |-> {},
              faults |-> {"heartbeat"}, missed |-> ConnMissed]
    /\ sup = SupAt("attach", "ctor")
    /\ InitObject
    /\ disc = NoDisc
    /\ xfer = NoXfer
    /\ link = NoLink

SpecConn == InitConn /\ [][NextConn]_vars

\* the same scenario with a main thread that is always scheduled again: run
\* sleeps one second per tick and _attach blocks on nothing but Discovery,
\* which answers Assigned here
SpecLive == InitConn /\ [][NextConn]_vars /\ WF_vars(Supervisor)

-----------------------------------------------------------------------------
(* Scenario: a trainer whose heartbeats fail, two requests, no other fault *)

NextSerial ==
    \/ Supervisor
    \/ \E g \in Gens :
          \/ Heartbeat(g)
          \/ combiner_update_request(g)
          \/ update_subscribe(g)
          \/ update_request(g)
          \/ update_error(g)
          \/ process_request(g)
          \/ inbox_get(g)
          \/ task_start(g)
          \/ task_fetch(g)
          \/ training_exec(g)
          \/ training_upload(g)
          \/ task_report(g)

InitSerial ==
    /\ config = [trainer |-> TRUE, validator |-> FALSE, checksum |-> FALSE,
                 reconnect_after_missed_heartbeat |-> Threshold]
    /\ env = [answers |-> {"Assigned"}, requests |-> MaxReq, roles |-> {"COMBINER"},
              faults |-> {"heartbeat"}, missed |-> Threshold + 1]
    /\ sup = SupAt("attach", "ctor")
    /\ InitObject
    /\ disc = NoDisc
    /\ xfer = NoXfer
    /\ link = NoLink

SpecSerial == InitSerial /\ [][NextSerial]_vars

-----------------------------------------------------------------------------
(* Scenario: start-up with a checksum configured; no request, no fault     *)

NextPkg ==
    \/ Supervisor
    \/ _assign_sleep
    \/ \E g \in Gens :
          \/ _send_heartbeat(g)
          \/ update_subscribe(g)
          \/ validation_subscribe(g)
          \/ process_request(g)

InitPkg ==
    /\ config = [trainer |-> TRUE, validator |-> TRUE, checksum |-> TRUE,
                 reconnect_after_missed_heartbeat |-> Threshold]
    /\ env = [answers |-> AssignAnswers, requests |-> 0, roles |-> {}, faults |-> {},
              missed |-> 0]
    /\ sup = SupAt("attach", "ctor")
    /\ InitObject
    /\ disc = NoDisc
    /\ xfer = NoXfer
    /\ link = NoLink

SpecPkg == InitPkg /\ [][NextPkg]_vars

-----------------------------------------------------------------------------
(* Scenario: a caller that invokes _attach and _detach directly, in any     *)
(* order, on an object built up to line 86                                  *)

api_attach ==
    /\ sup.pc = "api"
    /\ sup' = SupAt("attach", "api")
    /\ UNCHANGED <<cfg, disc, xfer, link, state, error_state, missed, conn, tasks, nsub, threads>>

\* _detach, lines 203-207: the flag is written whatever it was
api_detach ==
    /\ sup.pc = "api"
    /\ channel \in Chans
    /\ closes[channel] < MaxClose
    /\ _detach
    /\ sup' = [sup EXCEPT !.pc = "api_close", !.noop = FALSE]
    /\ UNCHANGED <<cfg, disc, xfer, link, state, error_state, missed, channel, stubs, chan, closes, tasks,
                   nsub, threads>>

\* _detach, line 208
api_disconnect ==
    /\ sup.pc = "api_close"
    /\ _disconnect
    /\ sup' = [sup EXCEPT !.pc = "api"]
    /\ UNCHANGED <<cfg, disc, xfer, link, state, error_state, missed, attached, channel, stubs, tasks,
                   nsub, threads>>

NextApi ==
    \/ api_attach
    \/ api_detach
    \/ api_disconnect
    \/ _attach
    \/ _assign
    \/ _assign_sleep
    \/ _connect
    \/ _attach_flag

InitApi ==
    /\ config = [trainer |-> TRUE, validator |-> FALSE, checksum |-> FALSE,
                 reconnect_after_missed_heartbeat |-> Threshold]
    /\ env = [answers |-> AssignAnswers, requests |-> 0, roles |-> {}, faults |-> {},
              missed |-> 0]
    /\ sup = SupAt("api", "api")
    /\ InitObject
    /\ disc = NoDisc
    /\ xfer = NoXfer
    /\ link = NoLink

SpecApi == InitApi /\ [][NextApi]_vars

-----------------------------------------------------------------------------
(* Client.set_model, lines 347-391: the frames handed to modelStub.Upload   *)

\* a frame of the Upload or Download stream (fedn.ModelRequest /
\* fedn.ModelResponse): a status and data, which is empty when not given
Frame(status, data) == [status |-> status, data |-> data]

\* mdl.read(CHUNK_SIZE), line 377: the bytes from the read position on, at
\* most CHUNK_SIZE of them
ReadChunk(bt, pos) ==
    SubSeq(bt, pos + 1, IF pos + CHUNK_SIZE < Len(bt) THEN pos + CHUNK_SIZE ELSE Len(bt))

\* lines 358-366: bt is the model itself when it is a BytesIO, and is rewound
set_model ==
    /\ xfer.pc = "set_model"
    /\ xfer' = [xfer EXCEPT !.pc = "read", !.pos = 0]
    /\ UNCHANGED <<cfg, disc, link, state, error_state, missed, conn, inbox, enqueued, nreq,
                   published, warnings, nsub, threads, sup>>

\* a faulty generator that leaves the loop on the empty read before it yields
\* the terminal frame; C14 must tell it from upload_request_generator
upload_request_generator_no_terminal ==
    /\ xfer.pc = "read"
    /\ LET b == ReadChunk(xfer.bt, xfer.pos)
       IN  xfer' = [xfer EXCEPT
                      !.pos = @ + Len(b),
                      !.frames = IF b # << >> THEN Append(@, Frame("IN_PROGRESS", b)) ELSE @,
                      !.pc = IF b # << >> THEN "read" ELSE "uploaded"]
    /\ UNCHANGED <<cfg, disc, link, state, error_state, missed, conn, inbox, enqueued, nreq,
                   published, warnings, nsub, threads, sup>>

\* one turn of the loop of lines 376-387, driven by modelStub.Upload (389)
upload_request_generator ==
    /\ xfer.pc = "read"
    /\ LET b == ReadChunk(xfer.bt, xfer.pos)
           result == IF b # << >> THEN Frame("IN_PROGRESS", b) ELSE Frame("OK", << >>)
       IN  xfer' = [xfer EXCEPT
                      !.pos = @ + Len(b),
                      !.frames = Append(@, result),
                      !.pc = IF b # << >> THEN "read" ELSE "uploaded"]
    /\ UNCHANGED <<cfg, disc, link, state, error_state, missed, conn, inbox, enqueued, nreq,
                   published, warnings, nsub, threads, sup>>

\* Scenario: set_model on any model of at most MaxLen bytes, a BytesIO whose
\* position is wherever its writer left it
NextUpload ==
    \/ set_model
    \/ upload_request_generator

InitUpload ==
    /\ config = [trainer |-> TRUE, validator |-> FALSE, checksum |-> FALSE,
                 reconnect_after_missed_heartbeat |-> Threshold]
    /\ env = [answers |-> {}, requests |-> 0, roles |-> {}, faults |-> {}, missed |-> 0]
    /\ sup = SupAt("run", "run")
    /\ InitObject
    /\ disc = NoDisc
    /\ link = NoLink
    /\ \E bt \in BytesUpTo(MaxLen) : \E pos \in 0..Len(bt) :
          xfer = [NoXfer EXCEPT !.pc = "set_model", !.bt = bt, !.pos = pos]

SpecUpload == InitUpload /\ [][NextUpload]_vars

-----------------------------------------------------------------------------
(* Client.get_model, lines 323-345: the frames read off modelStub.Download  *)

\* fedn.ModelStatus, as far as get_model tells the values apart
ModelStatus == {"IN_PROGRESS", "OK", "FAILED"}

\* the frames a server may send
Frames == {Frame(st, d) : st \in ModelStatus, d \in BytesUpTo(MaxData)}

\* the streams of at most n frames
StreamsUpTo(n) == UNION {[1..k -> Frames] : k \in 0..n}

\* a faulty get_model that writes the data of every frame it reads, the
\* terminal one too; C15 must tell it from get_model
get_model_writes_every_frame ==
    /\ xfer.pc = "download"
    /\ xfer.pos < Len(xfer.frames)
    /\ LET part == xfer.frames[xfer.pos + 1]
       IN  xfer' = [xfer EXCEPT
                      !.pos = @ + 1,
                      !.data = @ \o part.data,
                      !.none = (part.status = "FAILED"),
                      !.pc = IF part.status = "IN_PROGRESS" THEN "download" ELSE "returned"]
    /\ UNCHANGED <<cfg, disc, link, state, error_state, missed, conn, inbox, enqueued, nreq,
                   published, warnings, nsub, threads, sup>>

\* one turn of the loop of lines 334-343 on the next frame of the stream
get_model ==
    /\ xfer.pc = "download"
    /\ xfer.pos < Len(xfer.frames)
    /\ LET part == xfer.frames[xfer.pos + 1]
       IN  xfer' = [xfer EXCEPT
                      !.pos = @ + 1,
                      !.data = IF part.status = "IN_PROGRESS" THEN @ \o part.data ELSE @,
                      !.none = (part.status = "FAILED"),
                      !.pc = IF part.status = "IN_PROGRESS" THEN "download" ELSE "returned"]
    /\ UNCHANGED <<cfg, disc, link, state, error_state, missed, conn, inbox, enqueued, nreq,
                   published, warnings, nsub, threads, sup>>

\* line 345: the stream has ended and no frame made the loop return
get_model_stream_end ==
    /\ xfer.pc = "download"
    /\ xfer.pos = Len(xfer.frames)
    /\ xfer' = [xfer EXCEPT !.pc = "returned"]
    /\ UNCHANGED <<cfg, disc, link, state, error_state, missed, conn, inbox, enqueued, nreq,
                   published, warnings, nsub, threads, sup>>

\* Scenario: get_model on any stream of at most MaxFrames frames
NextDownload ==
    \/ get_model
    \/ get_model_stream_end

InitDownload ==
    /\ config = [trainer |-> TRUE, validator |-> FALSE, checksum |-> FALSE,
                 reconnect_after_missed_heartbeat |-> Threshold]
    /\ env = [answers |-> {}, requests |-> 0, roles |-> {}, faults |-> {}, missed |-> 0]
    /\ sup = SupAt("run", "run")
    /\ InitObject
    /\ disc = NoDisc
    /\ link = NoLink
    /\ \E frames \in StreamsUpTo(MaxFrames) :
          xfer = [NoXfer EXCEPT !.pc = "download", !.frames = frames]

SpecDownload == InitDownload /\ [][NextDownload]_vars

-----------------------------------------------------------------------------
(* Client._connect, lines 130-194: the channel it builds from the assignment *)

\* lines 139-145: the host and port the channel goes to before the branches
HostOf(client_config) ==
    IF client_config.fqdn # None THEN client_config.fqdn ELSE client_config.host

PortOf(client_config) ==
    IF client_config.fqdn # None THEN 443 ELSE client_config.port

\* lines 148-179: which of the four branches builds the channel
BranchOf(l) ==
    IF l.client_config.certificate \notin {None, ""} THEN "certificate"
    ELSE IF l.getenv THEN "environment"
    ELSE IF l.secure THEN "secure"
    ELSE "insecure"

\* lines 139-181: the channel that _connect builds and installs
connect_channel ==
    /\ link.pc = "connect"
    /\ LET host == HostOf(link.client_config)
           port == PortOf(link.client_config)
       IN  link' = [link EXCEPT
                      !.pc = "connected",
                      !.channel =
                         IF BranchOf(link) = "insecure"
                            THEN Channel(FALSE, host, IF port = 443 THEN 80 ELSE port)
                            ELSE Channel(TRUE, host, port)]
    /\ UNCHANGED <<cfg, disc, xfer, state, error_state, missed, conn, tasks, nsub, threads, sup>>

\* lines 158 and 164: the certificate file cannot be read, or the server
\* certificate cannot be fetched; the exception leaves _connect
connect_raises ==
    /\ link.pc = "connect"
    /\ BranchOf(link) \in {"environment", "secure"}
    /\ link' = [link EXCEPT !.pc = "raised"]
    /\ UNCHANGED <<cfg, disc, xfer, state, error_state, missed, conn, tasks, nsub, threads, sup>>

\* the assignments _connect may be given: a host and a port, an fqdn or None,
\* a certificate, None or the empty string
ClientConfigs ==
    [host : {"host"}, port : {80, 443, 12080}, fqdn : {None, "fqdn"},
     certificate : {None, "", "certificate"}]

\* Scenario: _connect on any assignment, with FEDN_GRPC_ROOT_CERT_PATH set or
\* not, config['secure'] true or false and config['token'] set or not
NextLink ==
    \/ connect_channel
    \/ connect_raises

InitLink ==
    /\ config = [trainer |-> TRUE, validator |-> FALSE, checksum |-> FALSE,
                 reconnect_after_missed_heartbeat |-> Threshold]
    /\ env = [answers |-> {}, requests |-> 0, roles |-> {}, faults |-> {}, missed |-> 0]
    /\ sup = SupAt("connect", "ctor")
    /\ InitObject
    /\ disc = NoDisc
    /\ xfer = NoXfer
    /\ \E cc \in ClientConfigs, getenv, secure, token \in BOOLEAN :
          link = [NoLink EXCEPT !.pc = "connect", !.client_config = cc, !.getenv = getenv,
                                !.secure = secure, !.token = token]

SpecLink == InitLink /\ [][NextLink]_vars

-----------------------------------------------------------------------------
(* DiscoveryCombinerConnect, connect.py 24-78 *)

\* the HTTP status codes the discovery service answers with
StatusCodes == {200, 201, 203, 204, 401, 409, 500}

\* connect.py 45 and 61: the test applied to the status code of the POST and
\* of the PATCH
Accepted(status_code) == status_code >= 200 \/ status_code < 204

\* connect.py 34-52
connect ==
    /\ \E get \in StatusCodes :
          IF get # 200
             THEN \E post \in StatusCodes :
                     disc' = [NoDisc EXCEPT
                                !.last = "connect", !.get = get, !.post = post,
                                !.state = IF Accepted(post) THEN "Connected"
                                                            ELSE "Disconnected"]
             ELSE disc' = [NoDisc EXCEPT !.last = "connect", !.get = get,
                                         !.state = "Connected"]
    /\ UNCHANGED <<cfg, xfer, link, state, error_state, missed, conn, tasks, nsub, threads, sup>>

\* connect.py 54-78
update_status ==
    /\ \E patch \in StatusCodes, get \in StatusCodes, payload \in BOOLEAN :
          disc' = [NoDisc EXCEPT
                     !.last = "update_status", !.patch = patch, !.get = get,
                     !.payload = payload,
                     !.state = IF ~payload THEN "Error"
                               ELSE IF Accepted(patch) THEN "Connected" ELSE "Disconnected"]
    /\ UNCHANGED <<cfg, xfer, link, state, error_state, missed, conn, tasks, nsub, threads, sup>>

\* Scenario: a combiner that calls connect and update_status in any order
NextDiscovery ==
    \/ connect
    \/ update_status

InitDiscovery ==
    /\ config = [trainer |-> TRUE, validator |-> FALSE, checksum |-> FALSE,
                 reconnect_after_missed_heartbeat |-> Threshold]
    /\ env = [answers |-> {}, requests |-> 0, roles |-> {}, faults |-> {}, missed |-> 0]
    /\ sup = SupAt("attach", "ctor")
    /\ InitObject
    /\ xfer = NoXfer
    /\ link = NoLink
    /\ disc = NoDisc

SpecDiscovery == InitDiscovery /\ [][NextDiscovery]_vars

-----------------------------------------------------------------------------
(* Claims *)

\* process_request thread g has a task in hand: it has taken an envelope off
\* the inbox and has not yet ended the task (task_done, or an exception)
InTask(g) == pipe[g].pc \in {"start", "fetch", "exec", "upload", "report"}

\* C1: at every moment at most one task (train or validate) is executing, also
\* after heartbeat-triggered detaches and the reattaches of run, each of which
\* starts a new process_request thread
C1_AtMostOneTask == Cardinality({g \in Gens : InTask(g)}) <= 1

\* C2: once __init__ has returned, the state is idle whenever no task is in
\* flight, however the tasks before ended
C2_IdleWhenNoTask ==
    (sup.in = "run" /\ \A g \in Gens : ~InTask(g)) => state = "idle"

\* C3: the Worker keeps servicing tasks after a task failure: when the try
\* block of a task has failed and, the Worker still attached, an envelope is
\* on the inbox, a process_request thread (of a generation started so far) is
\* running to dequeue it
C3_EnvelopesAreServed ==
    (attached /\ inbox /= << >> /\ \E g \in Gens : pipe[g].failed) =>
        \E g \in 1..nsub : pipe[g].pc \notin {"done", "dead"}

\* C4: a failed train task ends with updated_model_id None and goes to the
\* report; its report is exactly one WARNING _send_status, publishes no
\* SendModelUpdate and ends the task; neither step touches the inbox, which
\* grows only by requests read off the streams
C4_FailedTrainWarnsOnce ==
    [][ /\ \A g \in Gens :
             /\ (pipe[g].task_type = "train" /\ ~pipe[g].failed /\ pipe'[g].failed) =>
                   /\ pipe'[g].pc = "report"
                   /\ pipe'[g].result = 0
                   /\ UNCHANGED <<published, warnings, inbox>>
             /\ (pipe[g].task_type = "train" /\ pipe[g].failed /\ pipe'[g] /= pipe[g]) =>
                   /\ pipe[g].pc = "report"
                   /\ warnings' = warnings + 1
                   /\ pipe'[g].pc \in {"get", "done", "dead"}
                   /\ UNCHANGED <<published, inbox>>
        /\ Len(inbox') > Len(inbox) =>
              \E g \in Gens :
                 \/ upd[g].msg /= NoRequest /\ inbox' = Append(inbox, <<"train", upd[g].msg>>)
                 \/ val[g].msg /= NoRequest /\ inbox' = Append(inbox, <<"validate", val[g].msg>>)
      ]_vars

\* C4 happens: a trainer has ended a failed train task with its WARNING and
\* without a publication, and waits for the next envelope
C4_Witness ==
    /\ config.trainer /\ ~config.validator
    /\ warnings = 1
    /\ published = << >>
    /\ inbox = << >>
    /\ pipe[1].pc = "get"

\* C5: a failed validate/infer task gets to the WARNING branch of
\* process_request: after the failure the thread is at the report with
\* metrics None
C5_FailedValidationWarns ==
    \A g \in Gens :
       (pipe[g].task_type = "validate" /\ pipe[g].failed) =>
           (pipe[g].pc = "report" /\ pipe[g].result = 0)

\* C6: at most one Combiner channel is open at a time
C6_OneOpenChannel == Cardinality({c \in Chans : chan[c] = "open"}) <= 1

\* C7: each failed heartbeat adds 1 to the count of failed heartbeats since
\* the last success, the count the threshold is tested against
C7_EachFailureAddsOne ==
    [][\A g \in Gens :
          (hb[g].pc = "add" /\ hb'[g].pc /= "add") => missed' = missed + 1]_vars

\* C8: detach is idempotent: no channel is closed more than once
C8_ClosedOnce == \A c \in Chans : closes[c] <= 1

\* C9: _attach called while attached returns at once: no assign call, and the
\* flag, the channel, the stubs and every channel's state stay as they are
C9_AttachNoOp ==
    [][(sup.pc = "attach" /\ attached /\ sup' /= sup) =>
          /\ sup'.pc = AttachReturn(sup.in)
          /\ sup'.calls = 0
          /\ sup'.noop
          /\ UNCHANGED conn]_vars

\* C9 happens: a direct _attach has returned at line 215, on an attached Worker
C9_Witness == sup.pc = "api" /\ sup.noop /\ attached /\ channel \in Chans

\* C10: every assign() call is answered by one branch: Assigned leaves the
\* loop for _connect, a fatal status exits, any other answer sleeps once and
\* calls again; so _connect starts after sleeps + 1 calls, the last answered
\* Assigned, and no channel is opened except by that _connect
C10_AssignNegotiation ==
    [][ /\ (sup.pc = "assign" /\ sup' /= sup) =>
              /\ sup'.calls = sup.calls + 1
              /\ sup'.sleeps = sup.sleeps
              /\ sup'.ans = "Assigned" => sup'.pc = "connect"
              /\ sup'.ans \in {"UnAuthorized", "UnMatchedConfig"} => sup'.pc = "exited"
              /\ sup'.ans \in {"TryAgain", "Error"} => sup'.pc = "assign_sleep"
              /\ sup'.ans \in AssignAnswers
        /\ (sup.pc = "assign_sleep" /\ sup' /= sup) =>
              /\ sup'.pc = "assign"
              /\ sup'.sleeps = sup.sleeps + 1
              /\ sup'.calls = sup.calls
        /\ (sup.pc /= "connect" /\ sup'.pc = "connect") =>
              /\ sup.pc = "assign"
              /\ sup'.ans = "Assigned"
              /\ sup'.calls = sup'.sleeps + 1
        /\ (sup.pc /= "exited" /\ sup'.pc = "exited") =>
              sup.pc = "assign"
        /\ (\E c \in Chans : chan[c] /= "open" /\ chan'[c] = "open") =>
              sup.pc = "connect" /\ sup.ans = "Assigned"
      ]_vars

\* C10 happens: MaxRetry retryable answers, then Assigned: MaxRetry sleeps,
\* MaxRetry + 1 calls, and the Supervisor is about to connect
C10_Witness ==
    /\ sup.pc = "connect"
    /\ sup.ans = "Assigned"
    /\ sup.sleeps = MaxRetry
    /\ sup.calls = MaxRetry + 1

\* C11: a package that fails its checksum is fatal before any subscription:
\* with error_state set, _subscribe_to_combiner has never been called and no
\* heartbeat, listener or process_request thread has been started
C11_NoWorkersAfterMismatch ==
    error_state =>
        /\ nsub = 0
        /\ \A g \in Gens :
              hb[g].pc = "none" /\ upd[g].pc = "none" /\ val[g].pc = "none"
              /\ pipe[g].pc = "none"

Pos(ids, id) ==
    IF \E i \in 1..Len(ids) : ids[i] = id
       THEN CHOOSE i \in 1..Len(ids) : ids[i] = id
       ELSE 0

\* C13: results are published in the order their envelopes were put on the
\* inbox, also across detach/reattach cycles
C13_PublishInEnqueueOrder ==
    \A i, j \in 1..Len(published) :
       i < j => Pos(enqueued, published[i]) < Pos(enqueued, published[j])

\* the data of frames 1..n of a stream, concatenated in order
RECURSIVE DataOf(_, _)
DataOf(frames, n) ==
    IF n = 0 THEN << >> ELSE DataOf(frames, n - 1) \o frames[n].data

\* C14: for a model of N >= 0 bytes set_model emits IN_PROGRESS frames of 1 to
\* CHUNK_SIZE bytes each whose data, concatenated in order, are the N bytes,
\* then exactly one frame with status OK and empty data, and nothing after it
C14_UploadChunks ==
    /\ \A i \in 1..Len(xfer.frames) :
          \/ /\ xfer.frames[i].status = "IN_PROGRESS"
             /\ Len(xfer.frames[i].data) \in 1..CHUNK_SIZE
          \/ /\ xfer.frames[i] = Frame("OK", << >>)
             /\ i = Len(xfer.frames)
             /\ xfer.pc = "uploaded"
    /\ xfer.pc = "uploaded" =>
          /\ Len(xfer.frames) >= 1
          /\ xfer.frames[Len(xfer.frames)].status = "OK"
          /\ DataOf(xfer.frames, Len(xfer.frames) - 1) = xfer.bt

\* a model of more than one chunk whose last chunk is short, fully uploaded
C14_Witness ==
    /\ xfer.pc = "uploaded"
    /\ Len(xfer.bt) > CHUNK_SIZE
    /\ Len(xfer.bt) % CHUNK_SIZE # 0
    /\ Len(xfer.frames) >= 3

\* the place in a stream of its first terminal (OK or FAILED) frame, 0 if none
FirstTerminal(frames) ==
    IF \E i \in 1..Len(frames) : frames[i].status # "IN_PROGRESS"
       THEN CHOOSE i \in 1..Len(frames) :
               /\ frames[i].status # "IN_PROGRESS"
               /\ \A j \in 1..(i - 1) : frames[j].status = "IN_PROGRESS"
       ELSE 0

\* C15: when the first terminal frame of the stream is OK, get_model returns a
\* buffer that is the concatenation, in order, of the data of the IN_PROGRESS
\* frames before that frame; the data of that frame and whatever follows it
\* are ignored
C15_DownloadBuffer ==
    LET t == FirstTerminal(xfer.frames)
    IN  (xfer.pc = "returned" /\ t > 0 /\ xfer.frames[t].status = "OK") =>
           /\ ~xfer.none
           /\ xfer.data = DataOf(xfer.frames, t - 1)
           /\ xfer.pos = t

\* a returned download whose OK frame carried data and was followed by one
\* more frame with data
C15_Witness ==
    /\ xfer.pc = "returned"
    /\ Len(xfer.frames) = 3
    /\ xfer.frames[1] = Frame("IN_PROGRESS", <<1>>)
    /\ xfer.frames[2] = Frame("OK", <<0>>)
    /\ xfer.frames[3].data # << >>
    /\ xfer.data = <<1>>

\* C16: get_model returns a buffer only if a frame with status OK arrived; it
\* fails when a FAILED frame arrives first, and a stream that ends without an
\* OK frame is not reported as a successful download
C16_BufferOnlyOnOk ==
    (xfer.pc = "returned" /\ ~xfer.none) =>
        \E i \in 1..xfer.pos : xfer.frames[i].status = "OK"

\* C17: every request that the update-request stream yields and whose sender
\* role is COMBINER is appended to the inbox as a train envelope, in reception
\* order, also when publishing its MODEL_UPDATE_REQUEST status fails with a
\* transport error
C17_CombinerRequestEnqueued ==
    [][\A g \in Gens :
          (update_request(g) /\ upd[g].msg.role = "COMBINER") =>
              inbox' = Append(inbox, <<"train", upd[g].msg>>)]_vars

\* C18: on both request streams a listener whose stream raised RpcError does
\* not hold an open subscription again before it has slept its 5 seconds of
\* backoff, and a listener that finds the client detached after an error
\* returns without subscribing again
C18_BackoffBeforeResubscribe ==
    [][\A g \in Gens :
          /\ update_error(g) => upd'[g].pc # "stream"
          /\ validation_error(g) => val'[g].pc # "stream"
          /\ (update_error(g) /\ ~attached) => upd'[g].pc = "done"
          /\ (validation_backoff(g) /\ ~attached) => val'[g].pc = "done"]_vars

\* the threads of generation g that have been started and have not returned
\* or died
LiveWorkers(g) ==
    {k \in {"heartbeat", "update", "validation", "pipeline"} :
        \/ k = "heartbeat" /\ hb[g].pc \notin {"none", "done"}
        \/ k = "update" /\ upd[g].pc \notin {"none", "done"}
        \/ k = "validation" /\ val[g].pc \notin {"none", "done"}
        \/ k = "pipeline" /\ pipe[g].pc \notin {"none", "done", "dead"}}

\* C19: when run's reattach installs a new channel and new stubs, every
\* heartbeat, listener and process_request thread started under the previous
\* attachment has exited: the channel is reassigned only when no worker runs
C19_NoWorkerAtReattach ==
    [][(_connect /\ sup.in = "run") => \A g \in Gens : LiveWorkers(g) = {}]_vars

\* C20: when the assignment carries an fqdn, the channel _connect builds is a
\* secure channel to port 443, whether or not the assignment has a
\* certificate, FEDN_GRPC_ROOT_CERT_PATH is set or config['secure'] is true
C20_FqdnMeansTls ==
    (link.pc = "connected" /\ link.client_config.fqdn # None) =>
        /\ link.channel.secure
        /\ link.channel.port = 443

\* C21: a train task publishes its SendModelUpdate only from the report step,
\* with a model_update_id that is the fresh id its completed upload went
\* under; it reaches the report with an id only from the upload, the upload
\* only from the run of the train command, and that only from the download of
\* the request's model; the MODEL_UPDATE status that ends the task comes with
\* or after the publish, never without it
C21_TrainStepOrder ==
    [][\A g \in Gens :
          /\ (task_report(g) /\ pipe[g].task_type = "train" /\ published' # published) =>
                /\ pipe[g].result = pipe[g].uploaded
                /\ pipe[g].uploaded = FreshId(pipe[g].request)
                /\ pipe[g].uploaded \notin 0..MaxReq
                /\ published' = Append(published, pipe[g].request.id)
          /\ (task_report(g) /\ pipe[g].task_type = "train" /\ pipe[g].result # 0
                 /\ pipe'[g].pc # "dead") => published' # published
          /\ pipe'[g].task_type = "train" =>
                /\ (pipe'[g].pc = "report" /\ pipe[g].pc # "report"
                       /\ pipe'[g].result # 0) =>
                      /\ pipe[g].pc = "upload"
                      /\ pipe'[g].uploaded = pipe'[g].result
                /\ (pipe'[g].pc = "upload" /\ pipe[g].pc # "upload") => pipe[g].pc = "exec"
                /\ (pipe'[g].pc = "exec" /\ pipe[g].pc # "exec") =>
                      /\ pipe[g].pc = "fetch"
                      /\ pipe'[g].request = pipe[g].request]_vars

\* a trainer that has published the updates of both of its requests
C21_Witness ==
    /\ config.trainer /\ ~config.validator
    /\ Len(published) = MaxReq
    /\ warnings = 0

\* C22: every envelope on the inbox holds a request whose sender role is
\* COMBINER; neither listener enqueues a request sent by another role
C22_OnlyCombinerEnvelopes ==
    \A i \in 1..Len(inbox) : inbox[i][2].role = "COMBINER"

\* C23: connect leaves the state Connected only if its GET was answered 200 or
\* its POST with a status from 200 to 203, and Disconnected after any other
\* POST status; update_status sets Disconnected for a PATCH status outside
\* that range
C23_ConnectedOnlyOnSuccess ==
    /\ disc.last = "connect" =>
          (disc.state = "Connected" <=>
              (disc.get = 200 \/ (disc.post >= 200 /\ disc.post < 204)))
    /\ (disc.last = "update_status" /\ disc.payload
           /\ ~(disc.patch >= 200 /\ disc.patch < 204)) => disc.state = "Disconnected"

\* C24: failures counted before a detach do not count after the reattach: when
\* the first heartbeat of a newly started heartbeat thread fails and no other
\* heartbeat thread is running, the count it adds to is below the threshold,
\* so that this one failure is tolerated
C24_CountEndsAtDetach ==
    [][\A g \in Gens :
          (/\ hb[g].pc = "send"
           /\ hb'[g].pc = "add"
           /\ \A h \in Gens \ {g} : hb[h].pc \in {"none", "done"}) =>
              hb'[g].old < config.reconnect_after_missed_heartbeat]_vars

\* process_request thread g is inside _process_training_request or
\* _process_validation_request, before the write of idle that ends it
Executing(g) == pipe[g].pc \in {"start", "fetch", "exec", "upload"}

\* C25: while a train task is executing the state is training and while a
\* validate or infer task is executing it is validating, from the first task
\* on, also for a task started while __init__ has not yet returned
C25_StateReflectsTask ==
    \A g \in Gens : Executing(g) => state = StateOf(pipe[g].task_type)

\* the main thread is inside _attach
AttachInProgress == sup.pc \in {"attach", "assign", "connect", "attach_flag"}

\* C26: whenever the client is attached and no _attach is in progress, the
\* channel installed in self.channel is open
C26_AttachedChannelOpen ==
    (attached /\ ~AttachInProgress) => (channel \in Chans /\ chan[channel] = "open")

\* the ids of the requests in a sequence of envelopes
IdsOf(envelopes) == {envelopes[i][2].id : i \in 1..Len(envelopes)}

\* C27: no step of a detach or of an attach changes the inbox; the inbox
\* changes only by a put at its end or by the get of its head by exactly one
\* process_request thread; and no request is on the inbox twice, on the inbox
\* and in a thread's hands, in the hands of two threads, or published twice
C27_InboxKept ==
    /\ [][
          /\ (attached' # attached \/ channel' # channel \/ chan' # chan \/ nsub' # nsub)
                => inbox' = inbox
          /\ inbox' # inbox =>
                \/ /\ Len(inbox') = Len(inbox) + 1
                   /\ SubSeq(inbox', 1, Len(inbox)) = inbox
                \/ /\ inbox # << >>
                   /\ inbox' = Tail(inbox)
                   /\ Cardinality({g \in Gens : pipe'[g] # pipe[g]}) = 1
                   /\ \E g \in Gens :
                         /\ pipe[g].pc = "get"
                         /\ pipe'[g].pc = "start"
                         /\ pipe'[g].request = Head(inbox)[2]
       ]_vars
    /\ [](/\ Cardinality(IdsOf(inbox)) = Len(inbox)
          /\ \A g \in Gens : InTask(g) => pipe[g].request.id \notin IdsOf(inbox)
          /\ \A g, h \in Gens :
                (g # h /\ InTask(g) /\ InTask(h)) => pipe[g].request.id # pipe[h].request.id
          /\ \A i, j \in 1..Len(published) : i # j => published[i] # published[j]
          /\ \A i \in 1..Len(published) : published[i] \notin IdsOf(inbox))

\* both requests were put by the listener of the first attachment, which has
\* returned on the detach; after the reattach the new process_request thread
\* has taken the first of them and the second is still queued
C27_Witness ==
    /\ attached /\ nsub = 2
    /\ upd[1].pc = "done" /\ upd[2].pc = "subscribe"
    /\ pipe[1].pc = "done"
    /\ pipe[2].pc = "start" /\ pipe[2].request.id = 1
    /\ IdsOf(inbox) = {2}

====
